---- MODULE Spec2Model ----
(***************************************************************************)
(* GRF visualizer: the streaming event-detection core of                   *)
(*   src/fullscreen_grf.py   (variant "grf": zero-crossing detector,       *)
(*                            debounce, decaying maximum, history)         *)
(*   src/punchingmachine.py  (variant "pm": 100 N / 50 N hysteresis        *)
(*                            detector, score board, history)              *)
(*                                                                         *)
(* Units.  Timestamps are integers counting tenths of a second (the code   *)
(* holds float seconds): 1.0 s = 10, 5.0 s = 50, 10.0 s = 100.  Forces are *)
(* integers counting 1/ForceScale newton, so that int() of a force is a    *)
(* real truncation; N(x) is x newton.                                      *)
(*                                                                         *)
(* A sample is the Python tuple (timestamp, force): <<t, f>>.              *)
(* Plotting calls (setData, setXRange, show, repaint) are not modelled;    *)
(* the text of a status label is modelled by an ASCII tag.                 *)
(***************************************************************************)
EXTENDS Integers, Sequences, FiniteSets, TLC

VARIABLES
    app,      \* the application instance: the fields of its widgets
    stream,   \* samples the source has still to deliver to app, in order
              \* (where the producer thread is modelled: the lines the
              \* device has still to send)
    twin,     \* a second, independent instance of the same application
    stream2,  \* samples the source has still to deliver to twin
    rx        \* the connection DataReceiver.data_received -> update_data of app

vars == <<app, stream, twin, stream2, rx>>

(*************************** units and constants ***************************)

\* resolution of a force: units per newton
ForceScale == 2

N(x) == x * ForceScale

\* deque(maxlen=500)
maxlen == 500

\* update_plot: "latest_time - data_buffer[0][0] > 5.0"
window_span == 50

\* detect_mountain (grf): "timestamp - last_mountain_timestamp >= 1.0"
debounce_seconds == 10

\* update_max_value: "timestamp - max_timestamp > 10.0"
decay_window == 100

\* detect_mountain (grf): "prev_force <= 0 and force > 0", "force > 0"
start_threshold_grf == N(0)

continue_threshold_grf == N(0)

\* detect_mountain (pm): "prev_force <= 100 and force > 100", "force > 50"
start_threshold_pm == N(100)

continue_threshold_pm == N(50)

\* past_mountains[:3] / len(past_mountains) > 3
history_depth == 3

\* high_scores[:5]
leaderboard_depth == 5

(******************************* helpers ***********************************)

Last(s) == s[Len(s)]

\* [data[1] for data in m]
forces_of(m) == [i \in 1..Len(m) |-> m[i][2]]

\* Python max() of a non-empty list of numbers
py_max(xs) == CHOOSE x \in {xs[i] : i \in 1..Len(xs)} : \A j \in 1..Len(xs) : xs[j] <= x

\* Python int() of a force: truncation toward zero
py_int(f) == IF f >= 0 THEN f \div ForceScale ELSE -((-f) \div ForceScale)

\* seeded fault: the deque built with maxlen=100
deque_append_100(buf, x) == IF Len(buf) >= 100 THEN Append(Tail(buf), x) ELSE Append(buf, x)

\* deque.append on a deque(maxlen=500): a full deque drops its oldest entry
deque_append(buf, x) == IF Len(buf) >= maxlen THEN Append(Tail(buf), x) ELSE Append(buf, x)

\* the signals emitted / outgoing calls made by the last update_data
emit(s, sig, timestamp, force, data) ==
    [s EXCEPT !.signals = Append(@, [sig |-> sig, timestamp |-> timestamp,
                                     force |-> force, data |-> data])]

(****************************** construction *******************************)

\* MainWindow.__init__ of either application
InitApp(v) ==
    [ variant                 |-> v,
      \* RealtimeDisplayWidget
      data_buffer             |-> <<>>,
      current_mountain        |-> <<>>,
      in_mountain             |-> FALSE,
      last_mountain_timestamp |-> 0,
      last_mountain_time      |-> 0,
      mountain_count          |-> 0,
      status_label            |-> IF v = "grf" THEN "Receiving" ELSE "Get ready",
      timers                  |-> 0,
      \* PastWaveformsWidget (grf) / MountainDisplayWindow (pm)
      past_mountains          |-> <<>>,
      past_lines              |-> IF v = "grf" THEN << <<>>, <<>>, <<>> >> ELSE << <<>>, <<>> >>,
      current_line            |-> <<>>,
      window_status           |-> 0,
      \* MaxValueWidget (grf)
      max_force               |-> 0,
      max_timestamp           |-> 0,
      max_mountain_data       |-> <<>>,
      timer_label             |-> decay_window,
      \* PunchingScoreWidget (pm)
      high_scores             |-> <<>>,
      score_label             |-> 0,
      comment_label           |-> "punch",
      \* observation: calls made by the last update_data, all samples
      \* processed so far, all events finalized so far
      signals                 |-> <<>>,
      h_fed                   |-> <<>>,
      h_events                |-> <<>> ]

\* MainWindow.init_data_receiver: data_received is connected to update_data;
\* nothing was emitted yet.  posted holds the emissions queued for the event
\* loop of the main thread, h_emitted (observation) all emissions so far
\* and DataReceiver.__init__: serial_conn = None, running = False, no thread.
\* threads holds every thread start_receiving has started (self.thread names
\* the last one only), printed the kinds of message print() has written;
\* observation: h_after_stop counts emissions made while running is False,
\* h_closed_access tells that a thread used the handle after close(),
\* h_lines holds the lines readline() has returned
InitRx ==
    [ posted          |-> <<>>,
      h_emitted       |-> <<>>,
      running         |-> FALSE,
      serial_conn     |-> "None",
      threads         |-> <<>>,
      printed         |-> {},
      h_after_stop    |-> 0,
      h_closed_access |-> FALSE,
      h_lines         |-> <<>> ]

(************************ shared: sliding window ***************************)

\* seeded fault: without a previous sample the current one is taken
prev_force_self(buf) == IF Len(buf) >= 2 THEN buf[Len(buf) - 1][2] ELSE Last(buf)[2]

\* detect_mountain: "prev_force = 0; if len(data_buffer) >= 2: prev_force =
\* data_buffer[-2][1]" (the current sample is data_buffer[-1] already)
prev_force(buf) == IF Len(buf) >= 2 THEN buf[Len(buf) - 1][2] ELSE 0

\* seeded fault: the whole buffer dropped once its oldest entry is too old
popleft_old_clear(buf, latest_time) ==
    IF buf # <<>> /\ latest_time - buf[1][1] > window_span THEN <<>> ELSE buf

\* update_plot: "while data_buffer and latest_time - data_buffer[0][0] > 5.0:
\* data_buffer.popleft()"
RECURSIVE popleft_old(_, _)
popleft_old(buf, latest_time) ==
    IF buf # <<>> /\ latest_time - buf[1][1] > window_span
    THEN popleft_old(Tail(buf), latest_time)
    ELSE buf

\* update_plot: returns early on fewer than 2 entries, else evicts from the front
update_plot(s) ==
    IF Len(s.data_buffer) < 2
    THEN s
    ELSE [s EXCEPT !.data_buffer = popleft_old(@, Last(s.data_buffer)[1])]

(********************* fullscreen_grf.py: MaxValueWidget *******************)

\* seeded fault: the operands of the age swapped
decay_expired_swapped(timestamp, max_timestamp) == max_timestamp - timestamp > decay_window

\* seeded fault: the age compared with the 5.0 s of the sliding window
decay_expired_short(timestamp, max_timestamp) == timestamp - max_timestamp > window_span

\* seeded fault: the age compared with >=
decay_expired_ge(timestamp, max_timestamp) == timestamp - max_timestamp >= decay_window

\* update_max_value: "if timestamp - self.max_timestamp > 10.0"
decay_expired(timestamp, max_timestamp) == timestamp - max_timestamp > decay_window

\* update_max_value: "remaining_time = max(0, 10.0 - (timestamp - max_timestamp))"
remaining_time(timestamp, max_timestamp) ==
    IF decay_window - (timestamp - max_timestamp) > 0
    THEN decay_window - (timestamp - max_timestamp)
    ELSE 0

\* MaxValueWidget.update_max_value(timestamp, force, mountain_data)
update_max_value(s, timestamp, force, mountain_data) ==
    LET r == IF decay_expired(timestamp, s.max_timestamp)
             THEN [s EXCEPT !.max_force = 0, !.max_mountain_data = <<>>]
             ELSE s
        u == IF force > r.max_force
             THEN [r EXCEPT !.max_force = force,
                            !.max_timestamp = timestamp,
                            !.max_mountain_data =
                                IF mountain_data # <<>> THEN mountain_data ELSE @]
             ELSE r
    IN [u EXCEPT !.timer_label = remaining_time(timestamp, u.max_timestamp)]

\* MainWindow.on_max_value_updated, the slot of max_value_updated
on_max_value_updated(s, timestamp, force, mountain_data) ==
    update_max_value(emit(s, "max_value_updated", timestamp, force, mountain_data),
                     timestamp, force, mountain_data)

(****************** fullscreen_grf.py: PastWaveformsWidget *****************)

\* seeded fault: the new event appended instead of inserted at the front
insert_front_append(past, mountain_data) == past \o <<mountain_data>>

\* "self.past_mountains.insert(0, mountain_data.copy())"
insert_front(past, mountain_data) == <<mountain_data>> \o past

\* "self.past_mountains = self.past_mountains[:3]"
first_three(past) == SubSeq(past, 1, IF Len(past) < history_depth THEN Len(past) ELSE history_depth)

\* "times = [data[0] ...]; forces = [data[1] ...]; base_time = times[0];
\* normalized_times = [t - base_time for t in times]": the curve handed to
\* setData, built from new lists
normalized(past_data) ==
    [i \in 1..Len(past_data) |-> <<past_data[i][1] - past_data[1][1], past_data[i][2]>>]

\* seeded fault: the normalised curves written back into past_mountains
update_all_waveforms_in_place(s) ==
    [s EXCEPT !.past_mountains = [i \in 1..Len(@) |-> normalized(@[i])],
              !.past_lines = [i \in 1..Len(@) |->
                                 IF i <= Len(s.past_mountains)
                                 THEN normalized(s.past_mountains[i])
                                 ELSE <<>>]]

\* PastWaveformsWidget.update_all_waveforms: line i shows past_mountains[i]
\* normalised, a line without an event is emptied
update_all_waveforms(s) ==
    [s EXCEPT !.past_lines = [i \in 1..Len(@) |->
                                 IF i <= Len(s.past_mountains) /\ s.past_mountains[i] # <<>>
                                 THEN normalized(s.past_mountains[i])
                                 ELSE <<>>]]

\* PastWaveformsWidget.add_new_waveform
add_new_waveform(s, mountain_data) ==
    IF mountain_data # <<>>
    THEN update_all_waveforms(
             [s EXCEPT !.past_mountains = first_three(insert_front(@, mountain_data))])
    ELSE s

\* MainWindow.on_mountain_detected (grf), the slot of mountain_detected
on_mountain_detected_grf(s, mountain_data) ==
    add_new_waveform(emit(s, "mountain_detected", 0, 0, mountain_data), mountain_data)

(**************** fullscreen_grf.py: RealtimeDisplayWidget *****************)

\* "not self.in_mountain and prev_force <= 0 and force > 0"
starts_grf(in_mountain, prev, force) ==
    ~in_mountain /\ prev <= start_threshold_grf /\ force > start_threshold_grf

\* "self.in_mountain and force > 0"
continues_grf(in_mountain, force) == in_mountain /\ force > continue_threshold_grf

\* seeded fault: the end comparison taken as <
ends_grf_strict(in_mountain, force) == in_mountain /\ force < continue_threshold_grf

\* "self.in_mountain and force <= 0"
ends_grf(in_mountain, force) == in_mountain /\ force <= continue_threshold_grf

\* seeded fault: the 1.0 s gap left out of the comparison
debounce_passed_no_gap(timestamp, last_mountain_timestamp) ==
    timestamp - last_mountain_timestamp >= 0

\* seeded fault: a gap of 0.5 s taken as enough
debounce_passed_half(timestamp, last_mountain_timestamp) ==
    2 * (timestamp - last_mountain_timestamp) >= debounce_seconds

\* "if timestamp - self.last_mountain_timestamp >= 1.0"
debounce_passed(timestamp, last_mountain_timestamp) ==
    timestamp - last_mountain_timestamp >= debounce_seconds

\* seeded fault: the maximum taken without the sample that started the event
max_force_in_mountain_skip_first(current_mountain) ==
    py_max(forces_of(Tail(current_mountain)))

\* "max_force_in_mountain = max([data[1] for data in self.current_mountain])"
max_force_in_mountain(current_mountain) == py_max(forces_of(current_mountain))

\* seeded fault: an ignored event restarts the 1 s gap as well
finalize_grf_restart(s, timestamp) ==
    IF debounce_passed(timestamp, s.last_mountain_timestamp)
    THEN LET a == [s EXCEPT !.status_label = "Detected"]
             b == on_mountain_detected_grf(a, a.current_mountain)
             c == on_max_value_updated(b, timestamp,
                                       max_force_in_mountain(b.current_mountain),
                                       b.current_mountain)
         IN [c EXCEPT !.last_mountain_timestamp = timestamp,
                      !.timers = @ + 1,
                      !.h_events = Append(@, [data |-> c.current_mountain,
                                              accepted |-> TRUE,
                                              peak |-> max_force_in_mountain(c.current_mountain)])]
    ELSE [s EXCEPT !.status_label = "Ignored",
                   !.last_mountain_timestamp = timestamp,
                   !.timers = @ + 1,
                   !.h_events = Append(@, [data |-> s.current_mountain,
                                           accepted |-> FALSE,
                                           peak |-> 0])]

\* detect_mountain, third branch after the append: the 1 s check and what follows
finalize_grf(s, timestamp) ==
    IF debounce_passed(timestamp, s.last_mountain_timestamp)
    THEN LET a == [s EXCEPT !.status_label = "Detected"]
             b == on_mountain_detected_grf(a, a.current_mountain)
             c == on_max_value_updated(b, timestamp,
                                       max_force_in_mountain(b.current_mountain),
                                       b.current_mountain)
         IN [c EXCEPT !.last_mountain_timestamp = timestamp,
                      !.timers = @ + 1,
                      !.h_events = Append(@, [data |-> c.current_mountain,
                                              accepted |-> TRUE,
                                              peak |-> max_force_in_mountain(c.current_mountain)])]
    ELSE [s EXCEPT !.status_label = "Ignored",
                   !.timers = @ + 1,
                   !.h_events = Append(@, [data |-> s.current_mountain,
                                           accepted |-> FALSE,
                                           peak |-> 0])]

\* RealtimeDisplayWidget.detect_mountain (grf)
detect_mountain_grf(s, timestamp, force) ==
    IF starts_grf(s.in_mountain, prev_force(s.data_buffer), force)
    THEN [s EXCEPT !.in_mountain = TRUE,
                   !.current_mountain = << <<timestamp, force>> >>,
                   !.status_label = "Detecting"]
    ELSE IF continues_grf(s.in_mountain, force)
    THEN [s EXCEPT !.current_mountain = Append(@, <<timestamp, force>>)]
    ELSE IF ends_grf(s.in_mountain, force)
    THEN finalize_grf([s EXCEPT !.current_mountain = Append(@, <<timestamp, force>>),
                                !.in_mountain = FALSE], timestamp)
    ELSE s

\* seeded fault: the peak tracker fed by accepted events only
update_data_grf_events_only(s, timestamp, force) ==
    LET a == [s EXCEPT !.data_buffer = deque_append(@, <<timestamp, force>>),
                       !.signals = <<>>,
                       !.h_fed = Append(@, <<timestamp, force>>)]
    IN update_plot(detect_mountain_grf(a, timestamp, force))

\* RealtimeDisplayWidget.update_data (grf)
update_data_grf(s, timestamp, force) ==
    LET a == [s EXCEPT !.data_buffer = deque_append(@, <<timestamp, force>>),
                       !.signals = <<>>,
                       !.h_fed = Append(@, <<timestamp, force>>)]
        b == detect_mountain_grf(a, timestamp, force)
        c == on_max_value_updated(b, timestamp, force, <<>>)
    IN update_plot(c)

\* seeded fault: the late callback also resets the detector
reset_status_grf_resets(s) ==
    [s EXCEPT !.status_label = "Receiving Data", !.timers = @ - 1,
              !.in_mountain = FALSE, !.current_mountain = <<>>]

\* the lambda of QTimer.singleShot(3000, ...) (grf)
reset_status_grf(s) == [s EXCEPT !.status_label = "Receiving Data", !.timers = @ - 1]

(****************** punchingmachine.py: PunchingScoreWidget ****************)

\* seeded fault: the comparisons of the chain taken as <=
tier_le(score) ==
    IF score <= 500 THEN "gray"
    ELSE IF score <= 1000 THEN "blue"
    ELSE IF score <= 2000 THEN "orange"
    ELSE IF score <= 3000 THEN "red"
    ELSE "gold"

\* update_score: the if/elif chain over score, by the colour it selects
tier(score) ==
    IF score < 500 THEN "gray"
    ELSE IF score < 1000 THEN "blue"
    ELSE IF score < 2000 THEN "orange"
    ELSE IF score < 3000 THEN "red"
    ELSE "gold"

\* "self.high_scores.sort(reverse=True)" after the append: the list was sorted
\* before the append, so sorting places the new score before the first smaller one
RECURSIVE sort_reverse(_, _)
sort_reverse(sorted, score) ==
    IF sorted = <<>> THEN <<score>>
    ELSE IF score > Head(sorted) THEN <<score>> \o sorted
    ELSE <<Head(sorted)>> \o sort_reverse(Tail(sorted), score)

\* seeded fault: the last five entries kept instead of the first five
first_five_tail(hs) ==
    SubSeq(hs, IF Len(hs) < leaderboard_depth THEN 1 ELSE Len(hs) - leaderboard_depth + 1, Len(hs))

\* "self.high_scores = self.high_scores[:5]"
first_five(hs) == SubSeq(hs, 1, IF Len(hs) < leaderboard_depth THEN Len(hs) ELSE leaderboard_depth)

\* PunchingScoreWidget.update_high_score
update_high_score(s, score) ==
    [s EXCEPT !.high_scores = first_five(sort_reverse(@, score))]

\* PunchingScoreWidget.update_score
update_score(s, max_force) ==
    LET a == emit(s, "update_score", 0, max_force, <<>>)
        b == [a EXCEPT !.score_label = py_int(max_force),
                       !.comment_label = tier(py_int(max_force))]
    IN update_high_score(b, py_int(max_force))

(***************** punchingmachine.py: MountainDisplayWindow ***************)

\* seeded fault: the new event inserted at the front, the last entry dropped
append_pop_front(past, mountain_data) ==
    IF Len(past) + 1 > history_depth
    THEN SubSeq(<<mountain_data>> \o past, 1, history_depth)
    ELSE <<mountain_data>> \o past

\* seeded fault: a full list drops the entry just appended
append_pop_newest(past, mountain_data) ==
    IF Len(past) + 1 > history_depth
    THEN past
    ELSE Append(past, mountain_data)

\* "self.past_mountains.append(...); if len(self.past_mountains) > 3:
\* self.past_mountains.pop(0)"
append_pop(past, mountain_data) ==
    IF Len(past) + 1 > history_depth
    THEN Tail(Append(past, mountain_data))
    ELSE Append(past, mountain_data)

\* MountainDisplayWindow.update_all_plots: current_line shows the new event
\* normalised, line i shows past_mountains[:-1][i] normalised, a line without
\* an event is set to the dummy point (0, 0)
update_all_plots(s, current_mountain_data) ==
    [s EXCEPT !.current_line = IF current_mountain_data # <<>>
                               THEN normalized(current_mountain_data)
                               ELSE @,
              !.past_lines = [i \in 1..Len(@) |->
                                 IF i <= Len(s.past_mountains) - 1
                                 THEN IF s.past_mountains[i] # <<>>
                                      THEN normalized(s.past_mountains[i])
                                      ELSE @[i]
                                 ELSE << <<0, 0>> >>]]

\* MountainDisplayWindow.show_mountain
show_mountain(s, mountain_data, mountain_count) ==
    update_all_plots([s EXCEPT !.past_mountains = append_pop(@, mountain_data),
                               !.window_status = mountain_count],
                     mountain_data)

\* seeded fault: the count reported is the one before the increment
on_mountain_detected_pm_stale(s, mountain_data) ==
    show_mountain(emit(s, "mountain_detected", 0, 0, mountain_data),
                  mountain_data, s.mountain_count - 1)

\* MainWindow.on_mountain_detected (pm), the slot of mountain_detected
on_mountain_detected_pm(s, mountain_data) ==
    show_mountain(emit(s, "mountain_detected", 0, 0, mountain_data),
                  mountain_data, s.mountain_count)

(**************** punchingmachine.py: RealtimeDisplayWidget ****************)

\* seeded fault: a start looked for after a sample at or below 0 only
starts_pm_from_zero(in_mountain, prev, force) ==
    ~in_mountain /\ prev <= 0 /\ force > start_threshold_pm

\* seeded fault: the start comparison taken as >=
starts_pm_ge(in_mountain, prev, force) ==
    ~in_mountain /\ prev <= start_threshold_pm /\ force >= start_threshold_pm

\* "not self.in_mountain and prev_force <= 100 and force > 100"
starts_pm(in_mountain, prev, force) ==
    ~in_mountain /\ prev <= start_threshold_pm /\ force > start_threshold_pm

\* seeded fault: one threshold for start and continuation
continues_pm_single(in_mountain, force) == in_mountain /\ force > start_threshold_pm

\* "self.in_mountain and force > 50"
continues_pm(in_mountain, force) == in_mountain /\ force > continue_threshold_pm

\* "self.in_mountain and force <= 50"
ends_pm(in_mountain, force) == in_mountain /\ force <= continue_threshold_pm

\* seeded fault: the maximum taken without the sample that started the event
max_force_pm_skip_first(current_mountain) == py_max(forces_of(Tail(current_mountain)))

\* "max_force = max([data[1] for data in self.current_mountain])"
max_force_pm(current_mountain) == py_max(forces_of(current_mountain))

\* detect_mountain, third branch after the append: score, count, signal, timer
finalize_pm(s) ==
    IF s.current_mountain # <<>>
    THEN LET a == update_score(s, max_force_pm(s.current_mountain))
             b == [a EXCEPT !.mountain_count = @ + 1, !.status_label = "Done"]
             c == on_mountain_detected_pm(b, b.current_mountain)
         IN [c EXCEPT !.timers = @ + 1,
                      !.h_events = Append(@, [data |-> c.current_mountain,
                                              accepted |-> TRUE,
                                              peak |-> max_force_pm(c.current_mountain)])]
    ELSE s

\* RealtimeDisplayWidget.detect_mountain (pm)
detect_mountain_pm(s, timestamp, force) ==
    IF starts_pm(s.in_mountain, prev_force(s.data_buffer), force)
    THEN [s EXCEPT !.in_mountain = TRUE,
                   !.current_mountain = << <<timestamp, force>> >>,
                   !.status_label = "Detecting"]
    ELSE IF continues_pm(s.in_mountain, force)
    THEN [s EXCEPT !.current_mountain = Append(@, <<timestamp, force>>)]
    ELSE IF ends_pm(s.in_mountain, force)
    THEN finalize_pm([s EXCEPT !.current_mountain = Append(@, <<timestamp, force>>),
                               !.in_mountain = FALSE])
    ELSE s

\* RealtimeDisplayWidget.update_data (pm)
update_data_pm(s, timestamp, force) ==
    LET a == [s EXCEPT !.data_buffer = deque_append(@, <<timestamp, force>>),
                       !.signals = <<>>,
                       !.h_fed = Append(@, <<timestamp, force>>)]
    IN update_plot(detect_mountain_pm(a, timestamp, force))

\* RealtimeDisplayWidget.reset_status (pm), run by QTimer.singleShot(3000, ...)
reset_status_pm(s) == [s EXCEPT !.status_label = "Get ready for next", !.timers = @ - 1]

(************ trash/tempCodeRunnerFile.py: admin and user mode *************)

\* MainWindow.__init__ of the two-mode program: both widgets built
\* (UserModeWidget.init_data calls reset_state), no timer running, admin mode
\* shown.  countdown_timer and freeze_timer tell whether the QTimer is
\* active; start_shots holds one entry per pending
\* QTimer.singleShot(1000, self.start_detection); observation: h_epoch counts
\* the calls of start_user_mode, an entry of start_shots is the h_epoch it
\* was scheduled in, h_freeze_epoch the h_epoch freeze_timer was started in
InitUser ==
    [ variant         |-> "user",
      current_mode    |-> "admin",
      \* AdminModeWidget
      admin_buffer    |-> <<>>,
      \* UserModeWidget
      state           |-> "countdown",
      countdown_value |-> 3,
      countdown_label |-> "",
      mountain_data   |-> <<>>,
      current_mountain |-> <<>>,
      in_mountain     |-> FALSE,
      mountain_found  |-> FALSE,
      data_buffer     |-> <<>>,
      countdown_timer |-> FALSE,
      freeze_timer    |-> FALSE,
      start_shots     |-> <<>>,
      h_epoch         |-> 0,
      h_freeze_epoch  |-> 0,
      h_fed           |-> <<>> ]

\* UserModeWidget.reset_state
reset_state(s) ==
    [s EXCEPT !.state = "countdown",
              !.countdown_value = 3,
              !.mountain_data = <<>>,
              !.current_mountain = <<>>,
              !.in_mountain = FALSE,
              !.mountain_found = FALSE,
              !.data_buffer = <<>>]

\* UserModeWidget.update_countdown: shows the value and counts down, or
\* shows "Start!", stops countdown_timer and schedules start_detection
update_countdown(s) ==
    IF s.countdown_value > 0
    THEN [s EXCEPT !.countdown_label = <<"1", "2", "3">>[s.countdown_value],
                   !.countdown_value = @ - 1]
    ELSE [s EXCEPT !.countdown_label = "Start!",
                   !.countdown_timer = FALSE,
                   !.start_shots = Append(@, s.h_epoch)]

\* UserModeWidget.start_countdown: countdown_timer.start(1000) restarts the
\* one QTimer object
start_countdown(s) ==
    [update_countdown([s EXCEPT !.state = "countdown", !.countdown_value = 3])
        EXCEPT !.countdown_timer = TRUE]

\* UserModeWidget.start_user_mode
start_user_mode(s) == start_countdown(reset_state([s EXCEPT !.h_epoch = @ + 1]))

\* UserModeWidget.start_detection
start_detection(s) == [s EXCEPT !.state = "detecting"]

\* UserModeWidget.display_mountain: freeze_timer.start(15000)
display_mountain(s) ==
    [s EXCEPT !.state = "frozen", !.freeze_timer = TRUE, !.h_freeze_epoch = s.h_epoch]

\* UserModeWidget.end_freeze_display
end_freeze_display(s) == [s EXCEPT !.freeze_timer = FALSE, !.state = "realtime"]

\* seeded fault: the early return on mountain_found left out
mountain_found_returns_never(mountain_found) == FALSE

\* detect_mountain (user mode): "if self.mountain_found: return"
mountain_found_returns(mountain_found) == mountain_found

\* UserModeWidget.detect_mountain
detect_mountain_user(s, timestamp, force) ==
    IF mountain_found_returns(s.mountain_found)
    THEN s
    ELSE IF ~s.in_mountain /\ prev_force(s.data_buffer) <= 0 /\ force > 0
    THEN [s EXCEPT !.in_mountain = TRUE,
                   !.current_mountain = << <<timestamp, force>> >>]
    ELSE IF s.in_mountain /\ force > 0
    THEN [s EXCEPT !.current_mountain = Append(@, <<timestamp, force>>)]
    ELSE IF s.in_mountain /\ force <= 0
    THEN display_mountain(
             [s EXCEPT !.current_mountain = Append(@, <<timestamp, force>>),
                       !.mountain_found = TRUE,
                       !.mountain_data = Append(s.current_mountain, <<timestamp, force>>)])
    ELSE s

\* UserModeWidget.update_data: data_buffer is a deque(maxlen=1000);
\* update_realtime_plot draws and changes no field
update_data_user(s, timestamp, force) ==
    IF s.state = "countdown"
    THEN s
    ELSE LET a == [s EXCEPT !.data_buffer =
                                IF Len(@) >= 1000
                                THEN Append(Tail(@), <<timestamp, force>>)
                                ELSE Append(@, <<timestamp, force>>)]
         IN IF a.state = "detecting"
            THEN detect_mountain_user(a, timestamp, force)
            ELSE a

\* AdminModeWidget.update_data
update_data_admin(s, timestamp, force) ==
    LET buf == deque_append(s.admin_buffer, <<timestamp, force>>)
    IN [s EXCEPT !.admin_buffer = IF Len(buf) >= 2 THEN popleft_old(buf, timestamp) ELSE buf]

\* MainWindow.on_data_received, the slot of data_received
on_data_received(s, timestamp, force) ==
    LET a == [s EXCEPT !.h_fed = Append(@, <<timestamp, force>>)]
    IN IF a.current_mode = "admin" THEN update_data_admin(a, timestamp, force)
       ELSE IF a.current_mode = "user" THEN update_data_user(a, timestamp, force)
       ELSE a

\* MainWindow.switch_to_admin
switch_to_admin(s) == [s EXCEPT !.current_mode = "admin"]

\* MainWindow.switch_to_user
switch_to_user(s) == start_user_mode([s EXCEPT !.current_mode = "user"])

(***************************** the two programs ****************************)

\* the slot connected to DataReceiver.data_received
update_data(s, timestamp, force) ==
    IF s.variant = "grf"
    THEN update_data_grf(s, timestamp, force)
    ELSE update_data_pm(s, timestamp, force)

\* the callback of a pending QTimer.singleShot
reset_status(s) == IF s.variant = "grf" THEN reset_status_grf(s) ELSE reset_status_pm(s)

(************ DataReceiver: the producer thread and the signal *************)

\* seeded fault: an emission queued ahead of those already waiting
post_front(posted, sample) == <<sample>> \o posted

\* "self.data_received.emit(timestamp, force)" in the producer thread: the
\* receiver lives in the main thread, so the call is queued behind the
\* emissions already waiting and the emitter goes on without waiting
post(posted, sample) == Append(posted, sample)

\* one turn of the loop of _receive_data / _dummy_data that emits a sample
produce(r, sample) ==
    [r EXCEPT !.posted = post(@, sample), !.h_emitted = Append(@, sample)]

\* threading.Thread(target=..., daemon=True) just started
new_thread(target) ==
    [ target |-> target, pc |-> "while", line |-> <<>>, counter |-> 0, pattern_index |-> 0 ]

\* DataReceiver.start_receiving; available tells whether serial.Serial(...)
\* opens the port or raises
start_receiving(r, available) ==
    IF r.running THEN r
    ELSE IF available
    THEN [r EXCEPT !.serial_conn = "open",
                   !.running = TRUE,
                   !.threads = Append(@, new_thread("_receive_data")),
                   !.printed = @ \cup {"serial started"}]
    ELSE [r EXCEPT !.running = TRUE,
                   !.threads = Append(@, new_thread("_dummy_data")),
                   !.printed = @ \cup {"serial port error", "dummy data mode"}]

\* DataReceiver.stop_receiving: "self.running = False; if self.serial_conn:
\* self.serial_conn.close()"
stop_receiving(r) ==
    [r EXCEPT !.running = FALSE,
              !.serial_conn = IF @ = "None" THEN "None" ELSE "closed"]

\* A line is the sequence of its comma-separated fields; a field is
\* <<"num", n>> (text float() accepts, of value n), <<"text", 0>> (text
\* float() rejects), <<"empty", 0>> or <<"bytes", 0>> (not valid UTF-8)

\* ".decode('utf-8')" raises on a line that holds invalid bytes
decodes(line) == \A k \in 1..Len(line) : line[k][1] # "bytes"

\* 'if "," in line'
has_comma(line) == Len(line) >= 2

\* float(field) raises on empty and on non-numeric text; after
\* split(",", 1) the second part still holds the commas of a third field
floats(line) == Len(line) = 2 /\ line[1][1] = "num" /\ line[2][1] = "num"

\* "timestamp = float(timestamp_str) / 1000.0": milliseconds to seconds
\* (whole tenths of a second in the lines modelled)
to_seconds(ms) == ms \div 100

\* "force = float(force_str) * 9.8": kg to newton (whole multiples of 5 kg
\* in the lines modelled, so that the product is exact)
to_newton(kg) == (kg * 98 * ForceScale) \div 10

\* the body of the try block of _receive_data for a line read: "raise",
\* "skip" (no comma) or "emit" with the sample emitted
parse_line(line) ==
    IF ~decodes(line) THEN [ outcome |-> "raise", sample |-> <<>> ]
    ELSE IF ~has_comma(line) THEN [ outcome |-> "skip", sample |-> <<>> ]
    ELSE IF ~floats(line) THEN [ outcome |-> "raise", sample |-> <<>> ]
    ELSE [ outcome |-> "emit",
           sample  |-> <<to_seconds(line[1][2]), to_newton(line[2][2])>> ]

\* 1000 * sin(pi * c / 20) for c = 0..19, rounded
sin_table ==
    <<0, 156, 309, 454, 588, 707, 809, 891, 951, 988,
      1000, 988, 951, 891, 809, 707, 588, 454, 309, 156>>

\* _dummy_data (grf): "mountain_patterns = [1000, 2000, 3000, 2000, 1000]"
mountain_patterns == <<1000, 2000, 3000, 2000, 1000>>

\* _dummy_data (grf): the pattern index used at this counter
dummy_pattern_index(th) ==
    IF th.counter % 300 = 0 THEN (th.pattern_index + 1) % 5 ELSE th.pattern_index

\* _dummy_data: the force computed at this counter, before max(0, force)
dummy_force(v, th) ==
    IF v = "grf"
    THEN IF th.counter % 300 < 20
         THEN (mountain_patterns[dummy_pattern_index(th) + 1]
                  * sin_table[(th.counter % 300) + 1] * ForceScale) \div 1000
         ELSE 0
    ELSE IF th.counter % 500 < 10
         THEN (2500 * sin_table[2 * (th.counter % 500) + 1] * ForceScale) \div 1000
         ELSE 0

\* _dummy_data: the sample emitted at this counter, 10 ms after the one
\* before: (current_time, max(0, force))
dummy_sample(v, th) ==
    <<th.counter \div 10, IF dummy_force(v, th) > 0 THEN dummy_force(v, th) ELSE 0>>

\* seeded fault: the loop condition taken as "while True"
loop_continues_always(running) == TRUE

\* "while self.running"
loop_continues(running) == running

\* seeded fault: the try block put around the loop, so that an exception
\* ends the thread
after_exception_done == "done"

\* "except Exception as e: print(...)" inside the loop: on to sleep and the
\* next turn
after_exception == "while"

\* an emission by a producer thread, counted when running is False
thread_emit(r, sample) ==
    [produce(r, sample) EXCEPT !.h_after_stop = IF r.running THEN @ ELSE @ + 1]

\* an exception caught in _receive_data
caught(r, i, closed_access) ==
    [r EXCEPT !.threads[i].pc = after_exception,
              !.threads[i].line = <<>>,
              !.printed = @ \cup {"receive error"},
              !.h_closed_access = @ \/ closed_access]

\* one step of thread i of r, the device having still to send the lines s:
\* the new receiver and the lines left.  _receive_data: the loop test, the
\* test of in_waiting, readline, then decoding to emitting; the sleep is
\* part of the step that precedes it.  _dummy_data: the loop test, then the
\* body
thread_step(r, s, v, i) ==
    LET th == r.threads[i]
    IN CASE th.pc = "while" ->
              [ r |-> [r EXCEPT !.threads[i].pc =
                          IF ~loop_continues(r.running) THEN "done"
                          ELSE IF th.target = "_receive_data" THEN "in_waiting"
                          ELSE "generate"],
                s |-> s ]
         [] th.pc = "in_waiting" ->
              IF r.serial_conn = "closed" THEN [ r |-> caught(r, i, TRUE), s |-> s ]
              ELSE IF r.serial_conn = "open" /\ s # <<>>
              THEN [ r |-> [r EXCEPT !.threads[i].pc = "readline"], s |-> s ]
              ELSE [ r |-> [r EXCEPT !.threads[i].pc = "while"], s |-> s ]
         [] th.pc = "readline" ->
              IF r.serial_conn = "closed" THEN [ r |-> caught(r, i, TRUE), s |-> s ]
              ELSE IF s # <<>>
              THEN [ r |-> [r EXCEPT !.threads[i].pc = "parse",
                                     !.threads[i].line = Head(s),
                                     !.h_lines = Append(@, Head(s))],
                     s |-> Tail(s) ]
              ELSE [ r |-> [r EXCEPT !.threads[i].pc = "parse",
                                     !.threads[i].line = << <<"empty", 0>> >>],
                     s |-> s ]
         [] th.pc = "parse" ->
              LET res == parse_line(th.line)
              IN IF res.outcome = "raise" THEN [ r |-> caught(r, i, FALSE), s |-> s ]
                 ELSE [ r |-> [(IF res.outcome = "emit"
                                THEN thread_emit(r, res.sample) ELSE r)
                                  EXCEPT !.threads[i].pc = "while",
                                         !.threads[i].line = <<>>],
                        s |-> s ]
         [] th.pc = "generate" ->
              [ r |-> [thread_emit(r, dummy_sample(v, th))
                          EXCEPT !.threads[i].pc = "while",
                                 !.threads[i].counter = @ + 1,
                                 !.threads[i].pattern_index = dummy_pattern_index(th)],
                s |-> s ]

(******************************** actions **********************************)

\* the event loop delivers the next sample to app
Deliver ==
    /\ stream # <<>>
    /\ app' = update_data(app, Head(stream)[1], Head(stream)[2])
    /\ stream' = Tail(stream)
    /\ UNCHANGED <<twin, stream2, rx>>

\* the event loop runs a pending status-reset timer of app
TimerFire ==
    /\ app.timers > 0
    /\ app' = reset_status(app)
    /\ UNCHANGED <<stream, twin, stream2, rx>>

\* the event loop delivers the next sample to twin
Deliver2 ==
    /\ stream2 # <<>>
    /\ twin' = update_data(twin, Head(stream2)[1], Head(stream2)[2])
    /\ stream2' = Tail(stream2)
    /\ UNCHANGED <<app, stream, rx>>

\* the event loop runs a pending status-reset timer of twin
TimerFire2 ==
    /\ twin.timers > 0
    /\ twin' = reset_status(twin)
    /\ UNCHANGED <<app, stream, stream2, rx>>

\* the peak tracker alone: one call of MaxValueWidget.update_max_value
CallUpdateMaxValue ==
    /\ stream # <<>>
    /\ \E mountain_data \in {<<>>, <<Head(stream)>>} :
          app' = [update_max_value(app, Head(stream)[1], Head(stream)[2], mountain_data)
                     EXCEPT !.h_fed = Append(@, Head(stream))]
    /\ stream' = Tail(stream)
    /\ UNCHANGED <<twin, stream2, rx>>

\* the score widget alone: one call of PunchingScoreWidget.update_score with
\* the force of the next sample
CallUpdateScore ==
    /\ stream # <<>>
    /\ app' = [update_score(app, Head(stream)[2]) EXCEPT !.h_fed = Append(@, Head(stream))]
    /\ stream' = Tail(stream)
    /\ UNCHANGED <<twin, stream2, rx>>

\* the producer thread emits the next sample
Produce ==
    /\ stream # <<>>
    /\ rx' = produce(rx, Head(stream))
    /\ stream' = Tail(stream)
    /\ UNCHANGED <<app, twin, stream2>>

\* the event loop of the main thread takes the oldest queued emission and
\* runs the slot update_data with it
Consume ==
    /\ rx.posted # <<>>
    /\ app' = update_data(app, Head(rx.posted)[1], Head(rx.posted)[2])
    /\ rx' = [rx EXCEPT !.posted = Tail(@)]
    /\ UNCHANGED <<stream, twin, stream2>>

\* bounds: producer threads started, samples followed of one generator
MaxStarts == 2

MaxDummy == 3

\* the main thread calls DataReceiver.start_receiving; the port opens or not
StartReceiving ==
    /\ rx.running \/ Len(rx.threads) < MaxStarts
    /\ \E available \in BOOLEAN : rx' = start_receiving(rx, available)
    /\ UNCHANGED <<app, stream, twin, stream2>>

\* the main thread calls DataReceiver.stop_receiving (closeEvent does)
StopReceiving ==
    /\ rx' = stop_receiving(rx)
    /\ UNCHANGED <<app, stream, twin, stream2>>

\* a producer thread that has not returned takes its next step (the
\* synthetic generator is followed for MaxDummy samples)
Producer ==
    \E i \in 1..Len(rx.threads) :
        /\ rx.threads[i].pc # "done"
        /\ ~(/\ rx.threads[i].target = "_dummy_data"
             /\ rx.threads[i].pc = "while"
             /\ loop_continues(rx.running)
             /\ rx.threads[i].counter >= MaxDummy)
        /\ rx' = thread_step(rx, stream, app.variant, i).r
        /\ stream' = thread_step(rx, stream, app.variant, i).s
        /\ UNCHANGED <<app, twin, stream2>>

\* bound: clicks on the user-mode button
MaxRestarts == 2

\* the event loop delivers the next sample to on_data_received
DeliverUser ==
    /\ stream # <<>>
    /\ app' = on_data_received(app, Head(stream)[1], Head(stream)[2])
    /\ stream' = Tail(stream)
    /\ UNCHANGED <<twin, stream2, rx>>

\* a click on the user-mode button
SwitchToUser ==
    /\ app.h_epoch < MaxRestarts
    /\ app' = switch_to_user(app)
    /\ UNCHANGED <<stream, twin, stream2, rx>>

\* a click on the admin-mode button
SwitchToAdmin ==
    /\ app.current_mode = "user"
    /\ app' = switch_to_admin(app)
    /\ UNCHANGED <<stream, twin, stream2, rx>>

\* countdown_timer times out
CountdownTimeout ==
    /\ app.countdown_timer
    /\ app' = update_countdown(app)
    /\ UNCHANGED <<stream, twin, stream2, rx>>

\* the oldest pending QTimer.singleShot(1000, self.start_detection) fires
StartDetectionShot ==
    /\ app.start_shots # <<>>
    /\ app' = start_detection([app EXCEPT !.start_shots = Tail(@)])
    /\ UNCHANGED <<stream, twin, stream2, rx>>

\* freeze_timer times out
FreezeTimeout ==
    /\ app.freeze_timer
    /\ app' = end_freeze_display(app)
    /\ UNCHANGED <<stream, twin, stream2, rx>>

NextOne == Deliver \/ TimerFire

NextTwo == Deliver \/ TimerFire \/ Deliver2 \/ TimerFire2

NextPeak == CallUpdateMaxValue

NextScore == CallUpdateScore

NextThreads == Produce \/ Consume \/ TimerFire

\* the application as main runs it: started once by MainWindow.__init__,
\* stopped by closeEvent
NextWired == StopReceiving \/ Producer \/ Consume \/ TimerFire

\* DataReceiver driven by any sequence of start_receiving / stop_receiving
NextReceiver == StartReceiving \/ StopReceiving \/ Producer \/ Consume \/ TimerFire

\* the two-mode program: samples, button clicks and the three timers
NextUser ==
    \/ DeliverUser
    \/ SwitchToUser
    \/ SwitchToAdmin
    \/ CountdownTimeout
    \/ StartDetectionShot
    \/ FreezeTimeout

(************************** the sample source ******************************)

\* bounds of the streams the specifications below draw from
MaxSamples == 5

MaxStep == 4

MaxWindow == 4

MaxDebounce == 7

MaxPeakCalls == 3

MaxPulses == 4

MaxTwin == 5

MaxScores == 6

MaxTier == 2

MaxBurst == 502

MaxThreads == 5

MaxLines == 3

MaxMixed == 3

MaxApiLines == 2

MaxGapPulses == 4

MaxUser == 4

\* time elapsed from the first sample to sample i, by the steps g[j][1]
RECURSIVE elapsed(_, _)
elapsed(g, i) == IF i <= 1 THEN 0 ELSE g[i][1] + elapsed(g, i - 1)

\* DataReceiver._receive_data emitting n samples (timestamp, force), one per
\* well-formed line, with device timestamps that never decrease: first
\* timestamp from T0, steps from DT, forces from FS
MonoStreams(T0, DT, FS, n) ==
    { [i \in 1..n |-> <<t0 + elapsed(g, i), g[i][2]>>] :
        t0 \in T0, g \in [1..n -> DT \X FS] }

\* DataReceiver._receive_data emitting n samples whose timestamps are whatever
\* the lines hold (no ordering is checked): timestamps from TS, forces from FS
FreeStreams(TS, FS, n) == { [i \in 1..n |-> g[i]] : g \in [1..n -> TS \X FS] }

\* n separate pulses, one per second: pulse i rises to peaks[i] at 1.0 s * i
\* and is back at 0 N half a second later
PulseStreams(PS, n) ==
    { [i \in 1..(2 * n) |-> IF i % 2 = 1
                            THEN <<10 * ((i + 1) \div 2), p[(i + 1) \div 2]>>
                            ELSE <<10 * (i \div 2) + 5, N(0)>>] :
        p \in [1..n -> PS] }

\* a device sending 1000 lines per second: a sample at 1.0 s, a second one
\* at a time of T2, then n - 2 samples of one force, 100 to each 0.1 s
BurstStreams(T2, FS, n) ==
    { [i \in 1..n |-> IF i = 1 THEN <<10, a>>
                      ELSE IF i = 2 THEN <<t2, b>>
                      ELSE <<t2 + 1 + ((i - 3) \div 100), c>>] :
        t2 \in T2, a \in FS, b \in FS, c \in FS }

\* n pulses of two samples each (150 N, then 0 N 0.1 s later), the first one
\* beginning at t0, each of the others a time of DT after the end of the one
\* before
GapStreams(t0, DT, n) ==
    { [i \in 1..(2 * n) |->
          <<t0 + elapsed([j \in 1..(2 * n) |->
                             <<IF j % 2 = 0 THEN 1 ELSE g[(j + 1) \div 2], 0>>], i),
            IF i % 2 = 1 THEN N(150) ELSE N(0)>>] :
        g \in [1..n -> DT] }

\* the device sending n well-formed lines "ms,kg", 0.1 s apart from 1.0 s
\* on, with weights from KG
LineStreams(KG, n) ==
    { [i \in 1..n |-> << <<"num", 1000 + 100 * (i - 1)>>, <<"num", g[i]>> >>] :
        g \in [1..n -> KG] }

\* the device sending n lines, the i-th one of the shapes of L with its
\* first field, if a number, replaced by the time 1.0 s + 0.1 s * (i - 1)
ShapedStreams(L, n) ==
    { [i \in 1..n |-> IF g[i][1][1] = "num"
                      THEN [g[i] EXCEPT ![1] = <<"num", 1000 + 100 * (i - 1)>>]
                      ELSE g[i]] :
        g \in [1..n -> L] }

(***************************** specifications ******************************)

\* one instance of variant v fed a stream of S; the twin is not run
InitOne(V, S) ==
    /\ \E v \in V : app = InitApp(v) /\ twin = InitApp(v)
    /\ stream \in S
    /\ stream2 = <<>>
    /\ rx = InitRx

\* general: both programs, short streams with free timestamps
Init ==
    InitOne({"grf", "pm"}, FreeStreams({0, 30, 60}, {N(0), N(150)}, MaxWindow))

Spec == Init /\ [][NextOne]_vars

\* detection scenarios: 0.1 s steps, the forces of the spec's scenario
InitDetect ==
    InitOne({"grf", "pm"},
            MonoStreams({0, 10}, {1}, {N(0), N(50), N(80), N(150)}, MaxSamples))

SpecDetect == InitDetect /\ [][NextOne]_vars

\* detector transitions: forces on and around every threshold, 0.1 s steps and
\* gaps of 6.0 s (which empty the sliding window)
InitStep ==
    InitOne({"grf", "pm"},
            MonoStreams({0}, {1, 60}, {N(0) - 1, N(0), N(50), N(100), N(150)}, MaxStep))

SpecStep == InitStep /\ [][NextOne]_vars

\* debounce (grf): a stream that starts at 1.0 s, samples 0.1 s or 0.4 s
\* apart, so that pulses end 0.2 s, 0.5 s, 0.8 s, 1.0 s or more apart
InitDebounce ==
    InitOne({"grf"}, MonoStreams({10}, {1, 4}, {N(0), N(150)}, MaxDebounce))

SpecDebounce == InitDebounce /\ [][NextOne]_vars

\* debounce (grf): pulses from 1.0 s on that follow each other after 0.1 s,
\* 0.5 s or 0.9 s, so that pulses end 0.2 s, 0.6 s or 1.0 s apart
InitGap == InitOne({"grf"}, GapStreams(10, {1, 5, 9}, MaxGapPulses))

SpecGap == InitGap /\ [][NextOne]_vars

\* history (grf): separate pulses, each accepted
InitHistory ==
    InitOne({"grf"}, PulseStreams({N(10), N(20), N(30), N(40)}, MaxPulses))

SpecHistory == InitHistory /\ [][NextOne]_vars

\* history (both programs): separate pulses above both start thresholds, each
\* accepted
InitHistories ==
    InitOne({"grf", "pm"}, PulseStreams({N(110), N(120), N(130)}, MaxPulses))

SpecHistories == InitHistories /\ [][NextOne]_vars

\* the sliding window at 1000 samples per second: more than maxlen samples
\* within 0.6 s, after a second sample 0.1 s or 6.0 s behind the first
InitBurst ==
    InitOne({"grf", "pm"}, BurstStreams({11, 70}, {N(0), N(150)}, MaxBurst))

SpecBurst == InitBurst /\ [][NextOne]_vars

\* producer thread and event loop interleaved: the stream is what the
\* producer has still to emit, 0.1 s steps
InitThreads ==
    InitOne({"grf", "pm"}, MonoStreams({10}, {1}, {N(0), N(150)}, MaxThreads))

SpecThreads == InitThreads /\ [][NextThreads]_vars

\* the application after MainWindow.__init__: the widgets built, the
\* receiver connected and started, the port having opened or not
InitWired(V, S) ==
    /\ \E v \in V : app = InitApp(v) /\ twin = InitApp(v)
    /\ stream \in S
    /\ stream2 = <<>>
    /\ \E available \in BOOLEAN : rx = start_receiving(InitRx, available)

\* shutdown: lines of 0 kg and 20 kg (196 N)
InitShutdown == InitWired({"grf", "pm"}, LineStreams({0, 20}, MaxLines))

\* every producer thread is scheduled again and again
SpecShutdown == InitShutdown /\ [][NextWired]_vars /\ WF_vars(Producer)

\* the shapes of line the device may send: "t,20" "t,0" "t,-5" (well-formed),
\* "5" (no comma), "t," (missing field), "t,abc" and "abc,20" (non-numeric),
\* "t,20,0" (three fields), and a line that is not valid UTF-8
LineShapes ==
    { << <<"num", 0>>, <<"num", 20>> >>,
      << <<"num", 0>>, <<"num", 0>> >>,
      << <<"num", 0>>, <<"num", -5>> >>,
      << <<"num", 5>> >>,
      << <<"num", 0>>, <<"empty", 0>> >>,
      << <<"num", 0>>, <<"text", 0>> >>,
      << <<"text", 0>>, <<"num", 20>> >>,
      << <<"num", 0>>, <<"num", 20>>, <<"num", 0>> >>,
      << <<"bytes", 0>> >> }

\* lines of every shape, read from a port that opened
InitLines ==
    /\ \E v \in {"grf", "pm"} : app = InitApp(v) /\ twin = InitApp(v)
    /\ stream \in ShapedStreams(LineShapes, MaxMixed)
    /\ stream2 = <<>>
    /\ rx = start_receiving(InitRx, TRUE)

SpecLines == InitLines /\ [][NextWired]_vars

\* start and stop in any order, from a receiver just constructed
InitReceiver == InitOne({"grf", "pm"}, LineStreams({0, 20}, MaxApiLines))

SpecReceiver == InitReceiver /\ [][NextReceiver]_vars

\* the two-mode program after MainWindow.__init__, samples 0.1 s apart
InitUserMode ==
    /\ app = InitUser
    /\ twin = InitUser
    /\ stream \in MonoStreams({10}, {1}, {N(0), N(150)}, MaxUser)
    /\ stream2 = <<>>
    /\ rx = InitRx

SpecUser == InitUserMode /\ [][NextUser]_vars

\* the peak tracker alone, called at times on and around the decay window
InitPeak ==
    InitOne({"grf"}, FreeStreams({0, 50, 100, 101, 201}, {N(0), N(80), N(150)}, MaxPeakCalls))

SpecPeak == InitPeak /\ [][NextPeak]_vars

\* the peak tracker alone, called with forces of either sign at ages of
\* 0, 10.0 and 10.1 s
InitPeakSigned ==
    InitOne({"grf"},
            FreeStreams({0, 100, 101}, {N(0) - 3, N(0), N(80), N(150)}, MaxPeakCalls))

SpecPeakSigned == InitPeakSigned /\ [][NextPeak]_vars

\* two instances of one program fed the same stream
InitTwin ==
    /\ \E v \in {"grf", "pm"} : app = InitApp(v) /\ twin = InitApp(v)
    /\ stream \in MonoStreams({10}, {1, 10}, {N(0), N(150)}, MaxTwin)
    /\ stream2 = stream
    /\ rx = InitRx

SpecTwin == InitTwin /\ [][NextTwo]_vars

\* the leaderboard alone: update_score called with forces that truncate to
\* 100, 200 (twice: 200 and 200.5 N) and 300, more often than the board is deep
InitScore ==
    InitOne({"pm"}, FreeStreams({0}, {N(100), N(200), N(200) + 1, N(300)}, MaxScores))

SpecScore == InitScore /\ [][NextScore]_vars

\* the score tiers alone: update_score called with forces on, just below and
\* just above every bound of the if/elif chain, and below 0
InitTier ==
    InitOne({"pm"},
            FreeStreams({0}, {N(0) - 3, N(0), N(499), N(500) - 1, N(500), N(999), N(1000),
                              N(1999), N(2000), N(2999), N(3000), N(3000) + 1, N(5000)},
                        MaxTier))

SpecTier == InitTier /\ [][NextScore]_vars

(******************************** claims ***********************************)

\* p is the maximum of the forces of the samples of m
IsPeakOf(p, m) ==
    /\ \E i \in 1..Len(m) : m[i][2] = p
    /\ \A i \in 1..Len(m) : m[i][2] <= p

\* the samples of the detection scenario, (0,0) (0.1,50) (0.2,150) (0.3,80) (0.4,0)
C1_Samples == << <<0, N(0)>>, <<1, N(50)>>, <<2, N(150)>>, <<3, N(80)>>, <<4, N(0)>> >>

\* C1 as stated: after the scenario the hysteresis detector has finalized
\* exactly one event, from 0.1 s to 0.4 s, with peak 150 N
C1_EventFrom01 ==
    (app.variant = "pm" /\ app.h_fed = C1_Samples) =>
        /\ Len(app.h_events) = 1
        /\ app.h_events[1].data[1][1] = 1
        /\ Last(app.h_events[1].data)[1] = 4
        /\ app.h_events[1].peak = N(150)

\* C1 amended: after the scenario the hysteresis detector has finalized exactly
\* one event; it holds the samples (0.2,150) (0.3,80) (0.4,0), so it spans
\* 0.2 s to 0.4 s, and its peak is 150 N (score 150)
C1_EventFrom02 ==
    (app.variant = "pm" /\ app.h_fed = C1_Samples) =>
        /\ Len(app.h_events) = 1
        /\ app.h_events[1].data = << <<2, N(150)>>, <<3, N(80)>>, <<4, N(0)>> >>
        /\ app.h_events[1].peak = N(150)
        /\ app.score_label = 150
        /\ app.past_mountains = <<app.h_events[1].data>>

C1_Witness ==
    /\ app.variant = "pm"
    /\ app.h_fed = C1_Samples
    /\ Len(app.h_events) = 1
    /\ ~app.in_mountain

\* C2: after each update_data no entry of data_buffer is more than 5.0 s
\* older than the newest (last appended) entry, whatever the timestamps
C2_WindowSpan ==
    \A i \in 1..Len(app.data_buffer) :
        Last(app.data_buffer)[1] - app.data_buffer[i][1] <= window_span

\* C3: the peak handed downstream with an accepted event (to update_score, or
\* in max_value_updated together with the event) is the maximum force over all
\* samples of the event, its first and its final sample included
C3_PeakIsMax ==
    /\ \A i \in 1..Len(app.h_events) :
          app.h_events[i].accepted => IsPeakOf(app.h_events[i].peak, app.h_events[i].data)
    /\ \A k \in 1..Len(app.signals) :
          /\ app.signals[k].sig = "update_score" =>
                IsPeakOf(app.signals[k].force, Last(app.h_events).data)
          /\ (app.signals[k].sig = "max_value_updated" /\ app.signals[k].data # <<>>) =>
                IsPeakOf(app.signals[k].force, app.signals[k].data)

\* an accepted event of three samples or more whose first sample is its peak
\* has just been handed to update_score
C3_Witness ==
    /\ app.variant = "pm"
    /\ app.h_events # <<>>
    /\ Len(Last(app.h_events).data) >= 3
    /\ Last(app.h_events).data[1][2] > Last(app.h_events).data[2][2]
    /\ \E k \in 1..Len(app.signals) :
          app.signals[k].sig = "update_score" /\ app.signals[k].force = Last(app.h_events).peak

\* the time at which event e was finalized: the timestamp of its last sample
FinalizedAt(e) == Last(e.data)[1]

\* events i and j were finalized less than 1.0 s apart
CloseEvents(i, j) ==
    /\ FinalizedAt(app.h_events[j]) - FinalizedAt(app.h_events[i]) < debounce_seconds
    /\ FinalizedAt(app.h_events[i]) - FinalizedAt(app.h_events[j]) < debounce_seconds

\* C4 as stated: of two events finalized less than 1.0 s apart exactly one is
\* accepted
C4_ExactlyOne ==
    \A i \in 1..Len(app.h_events) : \A j \in (i + 1)..Len(app.h_events) :
        CloseEvents(i, j) => (app.h_events[i].accepted # app.h_events[j].accepted)

\* C4 amended: of two events finalized less than 1.0 s apart at most one is
\* accepted; when the first event of a session is accepted and the second is
\* finalized less than 1.0 s later, the second is ignored and the history
\* holds one event
C4_AtMostOne ==
    /\ \A i \in 1..Len(app.h_events) : \A j \in (i + 1)..Len(app.h_events) :
          CloseEvents(i, j) => ~(app.h_events[i].accepted /\ app.h_events[j].accepted)
    /\ (Len(app.h_events) = 2 /\ app.h_events[1].accepted /\ CloseEvents(1, 2)) =>
          /\ ~app.h_events[2].accepted
          /\ app.past_mountains = <<app.h_events[1].data>>

\* two pulses finalized 0.5 s apart, the first accepted, the second ignored
C4_Witness ==
    /\ Len(app.h_events) = 2
    /\ app.h_events[1].accepted
    /\ FinalizedAt(app.h_events[2]) - FinalizedAt(app.h_events[1]) = 5
    /\ ~app.h_events[2].accepted
    /\ Len(app.past_mountains) = 1

\* C5 as stated: a call of update_max_value at ts with a force not above the
\* held peak M > 0 (recorded at t0) leaves peak 0 when ts - t0 > 10.0, and
\* leaves M when t0 <= ts < t0 + 10.0
C5_DecayToZero ==
    [][(stream # <<>> /\ app.max_force > 0 /\ Head(stream)[2] <= app.max_force) =>
          /\ (Head(stream)[1] - app.max_timestamp > decay_window) =>
                app'.max_force = 0
          /\ (app.max_timestamp <= Head(stream)[1]
              /\ Head(stream)[1] < app.max_timestamp + decay_window) =>
                app'.max_force = app.max_force]_vars

\* C5 amended: when ts - t0 > 10.0 the call drops M and leaves the force of
\* the call itself if that is above 0, else 0; when t0 <= ts < t0 + 10.0 it
\* leaves M
C5_DecayDropsPeak ==
    [][(stream # <<>> /\ app.max_force > 0 /\ Head(stream)[2] <= app.max_force) =>
          /\ (Head(stream)[1] - app.max_timestamp > decay_window) =>
                app'.max_force = (IF Head(stream)[2] > 0 THEN Head(stream)[2] ELSE 0)
          /\ (app.max_timestamp <= Head(stream)[1]
              /\ Head(stream)[1] < app.max_timestamp + decay_window) =>
                app'.max_force = app.max_force]_vars

\* peak 150 N recorded at 0 s, then a call 10.1 s later with 80 N: the peak
\* is 80 N
C5_Witness ==
    /\ app.h_fed = << <<0, N(150)>>, <<101, N(80)>> >>
    /\ app.max_force = N(80)
    /\ app.max_timestamp = 101

\* the peaks of the events of a list of events
PeaksOf(events) == [i \in 1..Len(events) |-> py_max(forces_of(events[i]))]

\* four events were finalized and accepted, with peaks 10, 20, 30, 40 in turn
C6_FourPulses ==
    /\ Len(app.h_events) = 4
    /\ \A i \in 1..4 : app.h_events[i].accepted
    /\ [i \in 1..4 |-> app.h_events[i].peak] = <<N(10), N(20), N(30), N(40)>>

\* C6: after four accepted pulses with peaks 10, 20, 30, 40 the history (grf)
\* reads, front to back, the events with peaks 40, 30, 20
C6_History ==
    C6_FourPulses =>
        /\ PeaksOf(app.past_mountains) = <<N(40), N(30), N(20)>>
        /\ app.past_mountains =
              <<app.h_events[4].data, app.h_events[3].data, app.h_events[2].data>>

C6_Witness == C6_FourPulses /\ Len(app.past_mountains) = 3 /\ stream = <<>>

\* C7: two instances that have consumed the same samples hold the same event
\* history, whichever of their status timers have fired
C7_SameHistory ==
    (stream = stream2) => app.past_mountains = twin.past_mountains

\* both instances consumed the whole stream and hold events, and a timer has
\* fired in one of them that is still pending in the other
C7_Witness ==
    /\ stream = <<>> /\ stream2 = <<>>
    /\ Len(app.past_mountains) >= 2
    /\ app.timers # twin.timers
    /\ app.status_label # twin.status_label

\* the step delivers the next sample to app
IsDeliver == stream # <<>> /\ app'.h_fed = Append(app.h_fed, Head(stream))

start_threshold(v) == IF v = "grf" THEN start_threshold_grf ELSE start_threshold_pm

continue_threshold(v) == IF v = "grf" THEN continue_threshold_grf ELSE continue_threshold_pm

\* C8 as stated: an IDLE detector leaves IDLE exactly on a sample above
\* start_threshold that follows a sample at or below it, the candidate being
\* that sample alone; on any other sample it stays IDLE, candidate unchanged
C8_StartAfterLowSample ==
    [][(IsDeliver /\ ~app.in_mountain) =>
          IF /\ app.h_fed # <<>>
             /\ Last(app.h_fed)[2] <= start_threshold(app.variant)
             /\ Head(stream)[2] > start_threshold(app.variant)
          THEN app'.in_mountain /\ app'.current_mountain = <<Head(stream)>>
          ELSE ~app'.in_mountain /\ app'.current_mountain = app.current_mountain]_vars

\* C8 amended: the same, the previous magnitude being taken as 0 for the
\* first sample of the stream (so a first sample above start_threshold starts
\* a candidate)
C8_StartOnRise ==
    [][(IsDeliver /\ ~app.in_mountain) =>
          IF /\ (IF app.h_fed = <<>> THEN 0 ELSE Last(app.h_fed)[2])
                    <= start_threshold(app.variant)
             /\ Head(stream)[2] > start_threshold(app.variant)
          THEN app'.in_mountain /\ app'.current_mountain = <<Head(stream)>>
          ELSE ~app'.in_mountain /\ app'.current_mountain = app.current_mountain]_vars

\* the first sample of the stream was above start_threshold and started a
\* candidate
C8_Witness ==
    /\ Len(app.h_fed) = 1
    /\ app.h_fed[1][2] > start_threshold(app.variant)
    /\ app.in_mountain
    /\ app.current_mountain = app.h_fed

\* C9: an ACTIVE detector appends every sample above continue_threshold to the
\* candidate, stays ACTIVE and finalizes nothing
C9_Continue ==
    [][(IsDeliver /\ app.in_mountain /\ Head(stream)[2] > continue_threshold(app.variant)) =>
          /\ app'.in_mountain
          /\ app'.current_mountain = Append(app.current_mountain, Head(stream))
          /\ app'.h_events = app.h_events
          /\ app'.past_mountains = app.past_mountains
          /\ \A k \in 1..Len(app'.signals) :
                app'.signals[k].sig \notin {"mountain_detected", "update_score"}]_vars

\* the hysteresis detector is ACTIVE and has appended a sample between the
\* two thresholds
C9_Witness ==
    /\ app.variant = "pm"
    /\ app.in_mountain
    /\ Len(app.current_mountain) >= 2
    /\ Last(app.current_mountain) = Last(app.h_fed)
    /\ Last(app.current_mountain)[2] = N(100)

\* C10: an ACTIVE detector appends the first sample at or below
\* continue_threshold as the final sample of the candidate, finalizes the
\* event on that sample and is IDLE afterwards
C10_End ==
    [][(IsDeliver /\ app.in_mountain /\ Head(stream)[2] <= continue_threshold(app.variant)) =>
          /\ ~app'.in_mountain
          /\ app'.current_mountain = Append(app.current_mountain, Head(stream))
          /\ Len(app'.h_events) = Len(app.h_events) + 1
          /\ Last(app'.h_events).data = Append(app.current_mountain, Head(stream))]_vars

\* an event has just been finalized on a sample at the continue threshold
C10_Witness ==
    /\ ~app.in_mountain
    /\ app.h_events # <<>>
    /\ Last(app.h_events).data = app.current_mountain
    /\ Last(app.current_mountain) = Last(app.h_fed)
    /\ Last(app.h_fed)[2] = continue_threshold(app.variant)

\* event i is the last accepted event before event j
LastAcceptedBefore(i, j) ==
    /\ i < j
    /\ app.h_events[i].accepted
    /\ \A k \in (i + 1)..(j - 1) : ~app.h_events[k].accepted

\* C11: in the hysteresis variant an event finalized less than 1.0 s after the
\* last accepted event is not accepted: it adds no score, no leaderboard entry
\* and no history entry
C11_PmDebounce ==
    app.variant = "pm" =>
        /\ \A j \in 1..Len(app.h_events) : \A i \in 1..(j - 1) :
              (/\ LastAcceptedBefore(i, j)
               /\ FinalizedAt(app.h_events[j]) - FinalizedAt(app.h_events[i])
                     < debounce_seconds) =>
                  ~app.h_events[j].accepted
        /\ (Len(app.h_events) = 2 /\ CloseEvents(1, 2)) =>
              /\ Len(app.high_scores) = 1
              /\ Len(app.past_mountains) = 1
              /\ app.mountain_count = 1

\* C12: an event finalized (grf) less than 1.0 s after last_mountain_timestamp
\* sets the status to the ignored message, emits no mountain_detected and
\* leaves the history as it was
C12_IgnoredLeavesHistory ==
    [][(/\ IsDeliver
        /\ app.variant = "grf"
        /\ app.in_mountain
        /\ Head(stream)[2] <= continue_threshold_grf
        /\ Head(stream)[1] - app.last_mountain_timestamp < debounce_seconds) =>
          /\ app'.status_label = "Ignored"
          /\ app'.past_mountains = app.past_mountains
          /\ Len(app'.h_events) = Len(app.h_events) + 1
          /\ ~Last(app'.h_events).accepted
          /\ \A k \in 1..Len(app'.signals) :
                app'.signals[k].sig # "mountain_detected"]_vars

\* a second event has just been finalized inside the gap: the status reads
\* ignored and the history still holds the first event alone
C12_Witness ==
    /\ app.variant = "grf"
    /\ Len(app.h_events) >= 2
    /\ ~Last(app.h_events).accepted
    /\ Last(app.h_events).data = app.current_mountain
    /\ Last(app.current_mountain) = Last(app.h_fed)
    /\ app.status_label = "Ignored"
    /\ app.past_mountains = <<app.h_events[1].data>>

\* C13: a call of update_max_value that does not find the held peak older
\* than 10.0 s never lowers max_force, and a force below the held peak leaves
\* it as it was
C13_PeakMonotone ==
    [][(stream # <<>> /\ ~(Head(stream)[1] - app.max_timestamp > decay_window)) =>
          /\ app'.max_force >= app.max_force
          /\ (Head(stream)[2] <= app.max_force) => app'.max_force = app.max_force]_vars

\* peak 150 N recorded at 0 s, then a call with 80 N exactly 10.0 s later:
\* the peak is still 150 N
C13_Witness ==
    /\ app.h_fed = << <<0, N(150)>>, <<100, N(80)>> >>
    /\ app.max_force = N(150)
    /\ app.max_timestamp = 0

\* the scores inserted so far: update_high_score is called with the truncated
\* force of every call of update_score
InsertedScores == [i \in 1..Len(app.h_fed) |-> py_int(app.h_fed[i][2])]

\* the number of entries of seq equal to v
Count(seq, v) == Cardinality({i \in 1..Len(seq) : seq[i] = v})

\* C14: after any sequence of score insertions high_scores has at most 5
\* entries (all of them while fewer than 5 were inserted), is non-increasing,
\* holds no value more often than it was inserted, and every inserted score
\* it lacks is no larger than any entry: it is the 5 largest with multiplicity
C14_Leaderboard ==
    LET all == InsertedScores
        hs  == app.high_scores
    IN /\ Len(hs) = (IF Len(all) < 5 THEN Len(all) ELSE 5)
       /\ \A i \in 1..(Len(hs) - 1) : hs[i] >= hs[i + 1]
       /\ \A i \in 1..Len(hs) : Count(hs, hs[i]) <= Count(all, hs[i])
       /\ \A j \in 1..Len(all) :
             Count(hs, all[j]) < Count(all, all[j]) =>
                \A i \in 1..Len(hs) : hs[i] >= all[j]

\* six scores were inserted, the last one went to the top of a full board
\* that holds a value twice
C14_Witness ==
    /\ Len(app.h_fed) = 6
    /\ Len(app.high_scores) = 5
    /\ app.high_scores[1] = InsertedScores[6]
    /\ app.high_scores[1] > app.high_scores[2]
    /\ app.high_scores[4] = app.high_scores[5]
    /\ \E j \in 1..5 : InsertedScores[j] < app.high_scores[5]

\* the upper bounds of the tiers below the last, and the colour of each tier
TierBounds == <<500, 1000, 2000, 3000>>

TierLabels == <<"gray", "blue", "orange", "red", "gold">>

\* score lies in tier k: at or above the bound of the tier before, below its own
InTier(k, score) ==
    /\ k = 1 \/ score >= TierBounds[k - 1]
    /\ k = 5 \/ score < TierBounds[k]

\* C15: the tier shown for a score is that of the first bound strictly above
\* the score (the last tier if there is none), a score equal to a bound is in
\* the next higher tier, and the score lies in exactly one tier
C15_Tier ==
    (app.h_fed # <<>>) =>
        LET score == app.score_label
            above == {k \in 1..4 : TierBounds[k] > score}
            first == IF above = {} THEN 5
                     ELSE CHOOSE k \in above : \A l \in above : k <= l
        IN /\ app.comment_label = TierLabels[first]
           /\ \A k \in 1..4 : score = TierBounds[k] => app.comment_label = TierLabels[k + 1]
           /\ {k \in 1..5 : InTier(k, score)} = {first}

\* update_score was called with exactly 2000 N and shows the tier above that bound
C15_Witness ==
    /\ app.h_fed # <<>>
    /\ Last(app.h_fed)[2] = N(2000)
    /\ app.score_label = 2000
    /\ app.comment_label = "red"

Accepted(e) == e.accepted

\* the sample lists of the accepted events, oldest first
AcceptedData ==
    LET acc == SelectSeq(app.h_events, Accepted)
    IN [i \in 1..Len(acc) |-> acc[i].data]

C17_HistoryBound ==
    LET n == Len(AcceptedData)
        k == IF n < 3 THEN n ELSE 3
    IN /\ Len(app.past_mountains) <= 3
       /\ Len(app.past_mountains) = k
       /\ {app.past_mountains[i] : i \in 1..Len(app.past_mountains)} =
             {AcceptedData[j] : j \in (n - k + 1)..n}
       /\ Cardinality({AcceptedData[j] : j \in (n - k + 1)..n}) = k

\* a fourth event was just accepted into a full history: the first event is
\* gone, the second to fourth are held
C17_Witness ==
    /\ Len(AcceptedData) = 4
    /\ Last(AcceptedData) = app.current_mountain
    /\ Len(app.past_mountains) = 3
    /\ \A i \in 1..3 : app.past_mountains[i] # AcceptedData[1]
    /\ \A j \in 2..4 : \E i \in 1..3 : app.past_mountains[i] = AcceptedData[j]

\* C18 as stated: update_data removes entries from the front of data_buffer
\* only, and only entries more than 5.0 s older than the sample just appended,
\* however many samples lie within 5.0 s
C18_TimeBoundOnly ==
    [][IsDeliver =>
          LET full    == Append(app.data_buffer, Head(stream))
              dropped == Len(full) - Len(app'.data_buffer)
          IN /\ dropped >= 0
             /\ app'.data_buffer = SubSeq(full, dropped + 1, Len(full))
             /\ \A i \in 1..dropped :
                   Head(stream)[1] - full[i][1] > window_span]_vars

\* C18 amended: update_data removes entries from the front of data_buffer
\* only: entries more than 5.0 s older than the sample just appended, and the
\* oldest entry when data_buffer already held 500 entries
C18_TimeOrCapacity ==
    [][IsDeliver =>
          LET full    == Append(app.data_buffer, Head(stream))
              dropped == Len(full) - Len(app'.data_buffer)
          IN /\ dropped >= 0
             /\ app'.data_buffer = SubSeq(full, dropped + 1, Len(full))
             /\ Len(app'.data_buffer) <= 500
             /\ \A i \in 1..dropped :
                   \/ Head(stream)[1] - full[i][1] > window_span
                   \/ i = 1 /\ Len(app.data_buffer) = 500]_vars

\* 501 samples within 0.6 s were processed: the first is gone from
\* data_buffer, which holds the other 500
C18_Witness ==
    /\ Len(app.h_fed) = 501
    /\ Last(app.h_fed)[1] - app.h_fed[1][1] <= window_span
    /\ Len(app.data_buffer) = 500
    /\ app.data_buffer = Tail(app.h_fed)

\* C19: at every step, for every interleaving of the producer thread and the
\* event loop, the samples processed by update_data followed by the samples
\* still queued are the samples emitted, in order: the processed sequence is
\* a prefix of the emitted one, nothing reordered, repeated or lost; and a
\* step in which the producer emits leaves every field of the application
\* as it was
C19_ProducerOrder ==
    [][/\ rx'.h_emitted = app'.h_fed \o rx'.posted
       /\ Len(app'.h_fed) <= Len(rx'.h_emitted)
       /\ SubSeq(rx'.h_emitted, 1, Len(app'.h_fed)) = app'.h_fed
       /\ (rx'.h_emitted # rx.h_emitted) => app' = app
       /\ (app'.h_fed # app.h_fed) =>
             /\ rx.posted # <<>>
             /\ app'.h_fed = Append(app.h_fed, Head(rx.posted))
             /\ rx'.h_emitted = rx.h_emitted]_vars

\* the producer is three samples ahead of the event loop, which has
\* processed the first two samples and finalized an event from them
C19_Witness ==
    /\ Len(app.h_fed) = 2
    /\ Len(rx.posted) = 3
    /\ Len(app.h_events) = 1
    /\ rx.h_emitted = app.h_fed \o rx.posted

\* the queue bound C20 speaks of; the code sets none
QueueBound == 3

\* C20: the samples in flight between producer and consumer never exceed a
\* fixed queue bound (the producer waits while the queue is full)
C20_Backpressure == Len(rx.posted) <= QueueBound

\* every producer thread started has left its loop
AllExited == \A i \in 1..Len(rx.threads) : rx.threads[i].pc = "done"

\* C21: once stop_receiving has set running to False, the producer thread
\* (reading the port or generating) makes at most one more emission and,
\* scheduled fairly, leaves its loop
C21_Shutdown ==
    /\ [](rx.h_after_stop <= 1)
    /\ (~rx.running) ~> AllExited

\* the thread has left its loop after an emission made when running was
\* already False
C21_Witness ==
    /\ ~rx.running
    /\ rx.threads # <<>>
    /\ AllExited
    /\ rx.h_after_stop = 1

\* C22: the serial handle is closed only when the producer has left its
\* loop, and no producer thread evaluates in_waiting or readline on the
\* handle after close()
C22_CloseAfterExit ==
    /\ (rx.serial_conn = "closed") => AllExited
    /\ ~rx.h_closed_access

\* the producer threads inside their loops
InLoop == {i \in 1..Len(rx.threads) : rx.threads[i].pc # "done"}

\* C23: whatever the sequence of start_receiving and stop_receiving calls,
\* at most one producer thread is inside its loop
C23_SingleProducer == Cardinality(InLoop) <= 1

\* a line of exactly two fields, both numbers
WellFormed(line) == Len(line) = 2 /\ line[1][1] = "num" /\ line[2][1] = "num"

\* the samples of the well-formed lines of a sequence of lines, in order
RECURSIVE SamplesOf(_)
SamplesOf(lines) ==
    IF lines = <<>> THEN <<>>
    ELSE (IF WellFormed(Head(lines))
          THEN << <<to_seconds(Head(lines)[1][2]), to_newton(Head(lines)[2][2])>> >>
          ELSE <<>>) \o SamplesOf(Tail(lines))

\* the lines read whose turn of the loop is over
Processed ==
    IF rx.threads[1].pc = "parse"
    THEN SubSeq(rx.h_lines, 1, Len(rx.h_lines) - 1)
    ELSE rx.h_lines

\* C24: the samples emitted are those of the well-formed lines read, one
\* each and in order, whatever malformed lines came before or between (a
\* malformed line gives no sample); the thread leaves its loop only when
\* running is False, so no exception ends it
C24_MalformedSkipped ==
    /\ rx.h_emitted = SamplesOf(Processed)
    /\ (rx.threads[1].pc = "done") => ~rx.running

\* a line with a non-numeric field was read and reported, then a well-formed
\* line, which gave the one sample emitted; the thread is still in its loop
C24_Witness ==
    /\ rx.running
    /\ Len(rx.h_lines) = 2
    /\ ~WellFormed(rx.h_lines[1]) /\ Len(rx.h_lines[1]) = 2
    /\ WellFormed(rx.h_lines[2])
    /\ Len(rx.h_emitted) = 1
    /\ "receive error" \in rx.printed
    /\ rx.threads[1].pc = "while"

\* the step is a start_receiving that could not open the port
IsFallbackStart ==
    /\ ~rx.running /\ rx'.running
    /\ Len(rx'.threads) = Len(rx.threads) + 1
    /\ Last(rx'.threads).target = "_dummy_data"

\* C25: a start_receiving that cannot open the port does not fail: it leaves
\* running True and a thread running the synthetic generator, and it
\* surfaces the fallback as a status: it writes a field of the receiver
\* other than running and thread, or the status label
C25_FallbackFlagged ==
    [][(~rx.running /\ rx'.running /\ rx'.serial_conn # "open") =>
          /\ IsFallbackStart
          /\ rx'.serial_conn # rx.serial_conn \/ app'.status_label # app.status_label]_vars

\* C26: a status-reset callback that fires after a later state change (a new
\* candidate has started, or a later finalization has scheduled a callback
\* of its own that is still pending) leaves the status as that change set it
C26_StaleTimerNoOp ==
    [][(app'.timers = app.timers - 1 /\ (app.in_mountain \/ app.timers >= 2)) =>
          app'.status_label = app.status_label]_vars

\* no sample of seq has a negative force
NonNegative(seq) == \A k \in 1..Len(seq) : seq[k][2] >= 0

\* C27: no sample with a negative force is stored in the sliding window, in
\* the candidate event or in an event of the history
C27_NoNegativeStored ==
    /\ NonNegative(app.data_buffer)
    /\ NonNegative(app.current_mountain)
    /\ \A i \in 1..Len(app.past_mountains) : NonNegative(app.past_mountains[i])

\* C28 as stated: a first sample of the stream above start_threshold leaves
\* the detector IDLE and starts no candidate
C28_FirstSampleStaysIdle ==
    [][(IsDeliver /\ app.h_fed = <<>> /\ Head(stream)[2] > start_threshold(app.variant)) =>
          /\ ~app'.in_mountain
          /\ app'.current_mountain = <<>>]_vars

\* C28 amended: a first sample of the stream above start_threshold takes the
\* detector from IDLE to ACTIVE (the previous magnitude counts as 0) and
\* starts a candidate made of that sample; nothing is finalized
C28_FirstSampleStarts ==
    [][(IsDeliver /\ app.h_fed = <<>> /\ Head(stream)[2] > start_threshold(app.variant)) =>
          /\ app'.in_mountain
          /\ app'.current_mountain = <<Head(stream)>>
          /\ app'.status_label = "Detecting"
          /\ app'.h_events = <<>>]_vars

\* the hysteresis detector is ACTIVE after a first sample of 150 N
C28_Witness ==
    /\ app.variant = "pm"
    /\ app.h_fed = << <<0, N(150)>> >>
    /\ app.data_buffer = app.h_fed
    /\ app.in_mountain
    /\ app.status_label = "Detecting"

\* the larger of two forces
Larger(a, b) == IF a > b THEN a ELSE b

\* C29: after every call of update_max_value, whatever the sign of the
\* force, max_force is >= 0; a call at or after max_timestamp leaves a peak
\* above 0 no older than 10.0 s; and the held peak is dropped exactly when
\* the call finds it older than 10.0 s (then the force of the call counts
\* alone), else it is kept or raised
C29_PeakRecord ==
    [][(stream # <<>>) =>
          LET ts == Head(stream)[1]
              f  == Head(stream)[2]
          IN /\ app'.max_force >= 0
             /\ (ts >= app.max_timestamp /\ app'.max_force > 0) =>
                   ts - app'.max_timestamp <= decay_window
             /\ app'.max_force =
                   IF ts - app.max_timestamp > decay_window
                   THEN Larger(f, 0)
                   ELSE Larger(f, app.max_force)]_vars

\* a peak of 150 N recorded at 0 s was dropped by a call with a negative
\* force 10.1 s later: the peak is 0
C29_Witness ==
    /\ app.h_fed = << <<0, N(150)>>, <<101, N(0) - 3>> >>
    /\ app.max_force = 0
    /\ app.max_timestamp = 0

\* the samples d of an event begin above the start threshold, stay above the
\* continue threshold and end at or below it, and are two or more
Shaped(d, v) ==
    /\ Len(d) >= 2
    /\ d[1][2] > start_threshold(v)
    /\ \A k \in 2..(Len(d) - 1) : d[k][2] > continue_threshold(v)
    /\ Last(d)[2] <= continue_threshold(v)

\* the timestamps of the samples d never decrease
Chronological(d) == \A k \in 1..(Len(d) - 1) : d[k][1] <= d[k + 1][1]

\* C30: every finalized event holds two samples or more in chronological
\* order, the first above start_threshold, those between first and last
\* above continue_threshold, the last at or below continue_threshold
C30_EventShape ==
    \A i \in 1..Len(app.h_events) :
        /\ Chronological(app.h_events[i].data)
        /\ Shaped(app.h_events[i].data, app.variant)

\* C31: the previous magnitude detect_mountain reads for a sample is the
\* magnitude of the sample ingested just before it, and 0 for the first
\* sample, whatever data_buffer has dropped by age or by capacity; every
\* update_data leaves the sample it ingested as the last entry of data_buffer
C31_PrevMagnitude ==
    [][IsDeliver =>
          /\ prev_force(deque_append(app.data_buffer, Head(stream)))
                = (IF app.h_fed = <<>> THEN 0 ELSE Last(app.h_fed)[2])
          /\ app'.data_buffer # <<>>
          /\ Last(app'.data_buffer) = Head(stream)]_vars

\* a second sample 6.0 s after the first emptied data_buffer of the first,
\* and the samples that followed filled it to its capacity and beyond
C31_Witness ==
    /\ Len(app.h_fed) > maxlen + 1
    /\ app.h_fed[2][1] - app.h_fed[1][1] > window_span
    /\ Len(app.data_buffer) = maxlen
    /\ Last(app.data_buffer) = Last(app.h_fed)
    /\ app.data_buffer[1] # app.h_fed[2]

\* the history after event d was handed to it, the entries held before left
\* as they were: newest first and cut to three (grf), oldest first and the
\* oldest dropped beyond three (pm)
HistoryWith(v, old, d) ==
    IF v = "grf"
    THEN SubSeq(<<d>> \o old, 1, IF Len(old) + 1 > 3 THEN 3 ELSE Len(old) + 1)
    ELSE IF Len(old) + 1 > 3 THEN Tail(old) \o <<d>> ELSE old \o <<d>>

\* C32: the events held by the history are snapshots: a step that hands no
\* event to the history leaves every entry as it was (sample ingestion, a
\* new candidate started or extended, a status timer), a step that hands one
\* adds the event as finalized and leaves the other entries as they were,
\* and every entry is the sample sequence of an event as it was finalized,
\* with its own timestamps (rendering normalises copies)
C32_Snapshots ==
    [][/\ IF /\ Len(app'.h_events) = Len(app.h_events) + 1
             /\ Last(app'.h_events).accepted
          THEN app'.past_mountains =
                  HistoryWith(app.variant, app.past_mountains, Last(app'.h_events).data)
          ELSE app'.past_mountains = app.past_mountains
       /\ \A i \in 1..Len(app'.past_mountains) :
             \E k \in 1..Len(app'.h_events) :
                /\ app'.h_events[k].accepted
                /\ app'.h_events[k].data = app'.past_mountains[i]]_vars

\* the history holds two events that began after 0 s, the detector is
\* extending a third candidate, and the lines drawn for the history begin
\* at 0 s
C32_Witness ==
    /\ Len(app.past_mountains) = 2
    /\ app.in_mountain
    /\ app.current_mountain # <<>>
    /\ \A i \in 1..2 :
          /\ app.past_mountains[i] # app.current_mountain
          /\ app.past_mountains[i][1][1] > 0
    /\ \E i \in 1..Len(app.past_lines) :
          /\ app.past_lines[i] # <<>>
          /\ app.past_lines[i][1][1] = 0
          /\ app.past_lines[i] = normalized(app.past_mountains[i])
          /\ app.past_lines[i] # app.past_mountains[i]

\* C33: the 1.0 s gap is measured from the last accepted event only (grf):
\* an ignored event leaves last_mountain_timestamp as it was; an event that
\* follows an accepted one, with any number of ignored events between them,
\* is accepted exactly if it was finalized 1.0 s or more after that accepted
\* event; last_mountain_timestamp is the time the last accepted event was
\* finalized
C33_GapFromAccepted ==
    [][/\ (/\ Len(app'.h_events) = Len(app.h_events) + 1
           /\ ~Last(app'.h_events).accepted) =>
              app'.last_mountain_timestamp = app.last_mountain_timestamp
       /\ \A j \in 1..Len(app'.h_events) : \A i \in 1..(j - 1) :
             (/\ i < j
              /\ app'.h_events[i].accepted
              /\ \A k \in (i + 1)..(j - 1) : ~app'.h_events[k].accepted) =>
                 /\ app'.h_events[j].accepted <=>
                       FinalizedAt(app'.h_events[j]) - FinalizedAt(app'.h_events[i])
                          >= debounce_seconds
                 /\ (\A k \in (j + 1)..Len(app'.h_events) : ~app'.h_events[k].accepted) =>
                       app'.last_mountain_timestamp =
                          FinalizedAt(app'.h_events[IF app'.h_events[j].accepted
                                                    THEN j ELSE i])]_vars

\* an event was accepted exactly 1.0 s after the accepted event before it,
\* two events having been ignored in between, the later of them 0.6 s
\* before it
C33_Witness ==
    /\ Len(app.h_events) = 4
    /\ app.h_events[1].accepted
    /\ ~app.h_events[2].accepted
    /\ ~app.h_events[3].accepted
    /\ app.h_events[4].accepted
    /\ FinalizedAt(app.h_events[4]) - FinalizedAt(app.h_events[1]) = debounce_seconds
    /\ FinalizedAt(app.h_events[4]) - FinalizedAt(app.h_events[3]) < debounce_seconds
    /\ app.last_mountain_timestamp = FinalizedAt(app.h_events[4])

\* C34: the first event finalized in a session is accepted, whatever the
\* time it was finalized at
C34_FirstEventAccepted == app.h_events # <<>> => app.h_events[1].accepted

\* C35: the peak and its source agree (grf): an attached source event
\* (max_mountain_data not empty) has the tracked peak as its largest
\* magnitude, and when the event accepted last has the tracked peak as its
\* largest magnitude it is the attached source
C35_PeakProvenance ==
    app.variant = "grf" =>
        /\ app.max_mountain_data # <<>> =>
              py_max(forces_of(app.max_mountain_data)) = app.max_force
        /\ (/\ app.h_events # <<>>
            /\ Last(app.h_events).accepted
            /\ Last(app.h_events).peak = app.max_force) =>
              app.max_mountain_data = Last(app.h_events).data

\* sample i of those processed is part of the candidate or of a finalized event
InEvent(i) ==
    \/ \E k \in 1..Len(app.current_mountain) : app.current_mountain[k] = app.h_fed[i]
    \/ \E e \in 1..Len(app.h_events) :
          \E k \in 1..Len(app.h_events[e].data) : app.h_events[e].data[k] = app.h_fed[i]

\* C36: a detector that is IDLE after a sample has processed a sample at or
\* below start_threshold, and every sample processed that is above
\* start_threshold is part of the candidate or of a finalized event
C36_NoPulseMissed ==
    /\ (app.h_fed # <<>> /\ ~app.in_mountain) =>
          Last(app.h_fed)[2] <= start_threshold(app.variant)
    /\ \A i \in 1..Len(app.h_fed) :
          app.h_fed[i][2] > start_threshold(app.variant) => InEvent(i)

\* after an event that ended on a sample between the thresholds, the
\* detector is IDLE on a second sample between the thresholds
C36_Witness ==
    /\ app.variant = "pm"
    /\ ~app.in_mountain
    /\ Len(app.h_events) = 1
    /\ Len(app.h_fed) >= 3
    /\ Last(app.h_fed)[2] = N(80)
    /\ Last(app.h_events[1].data) = app.h_fed[Len(app.h_fed) - 1]
    /\ app.h_fed[Len(app.h_fed) - 1][2] = N(50)

\* C37: the peak tracker sees every raw sample (grf): once a sample of
\* magnitude m >= 0 is processed the tracked peak is m or more, whether or
\* not the sample belongs to an accepted event
C37_PeakOnEverySample ==
    (/\ app.variant = "grf"
     /\ app.h_fed # <<>>
     /\ Last(app.h_fed)[2] >= 0) =>
        app.max_force >= Last(app.h_fed)[2]

\* a pulse of 150 N was ignored, 0.2 s after an accepted pulse of 50 N:
\* the history holds the first pulse alone and the tracked peak is 150 N
C37_Witness ==
    /\ app.variant = "grf"
    /\ Len(app.h_events) = 2
    /\ app.h_events[1].accepted
    /\ py_max(forces_of(app.h_events[1].data)) = N(50)
    /\ ~app.h_events[2].accepted
    /\ py_max(forces_of(app.h_events[2].data)) = N(150)
    /\ app.past_mountains = <<app.h_events[1].data>>
    /\ app.max_force = N(150)
    /\ Last(app.h_fed) = Last(app.h_events[2].data)

\* the step finalizes an event: the detector goes from ACTIVE to IDLE
IsFinalize == IsDeliver /\ app.in_mountain /\ ~app'.in_mountain

\* C38: in the hysteresis variant a step that finalizes an event makes one
\* call of update_score and then one hand-over to the history, adds the
\* event to the history and its score to the leaderboard (while that holds
\* fewer than five), raises mountain_count by one and reports the new count
\* with the event; any other step does
\* none of these; mountain_count is the number of events finalized
C38_FanOut ==
    [][app.variant = "pm" =>
          /\ app'.mountain_count = Len(app'.h_events)
          /\ IF IsFinalize
             THEN LET d == Append(app.current_mountain, Head(stream))
                  IN /\ Len(app'.signals) = 2
                     /\ app'.signals[1].sig = "update_score"
                     /\ app'.signals[1].force = py_max(forces_of(d))
                     /\ app'.signals[2].sig = "mountain_detected"
                     /\ app'.signals[2].data = d
                     /\ Len(app'.h_events) = Len(app.h_events) + 1
                     /\ app'.mountain_count = app.mountain_count + 1
                     /\ app'.window_status = app'.mountain_count
                     /\ app'.past_mountains = HistoryWith("pm", app.past_mountains, d)
                     /\ Len(app.high_scores) < leaderboard_depth =>
                           /\ Count(app'.high_scores, py_int(py_max(forces_of(d))))
                                 = Count(app.high_scores, py_int(py_max(forces_of(d)))) + 1
                           /\ Len(app'.high_scores) = Len(app.high_scores) + 1
             ELSE /\ IsDeliver => app'.signals = <<>>
                  /\ app'.h_events = app.h_events
                  /\ app'.mountain_count = app.mountain_count
                  /\ app'.window_status = app.window_status
                  /\ app'.past_mountains = app.past_mountains
                  /\ app'.high_scores = app.high_scores]_vars

\* the fourth event of a session has just been finalized: count 4 reported,
\* four scores on the leaderboard, the last three events in the history
C38_Witness ==
    /\ app.variant = "pm"
    /\ app.mountain_count = 4
    /\ app.window_status = 4
    /\ Len(app.h_events) = 4
    /\ Len(app.high_scores) = 4
    /\ Len(app.past_mountains) = 3
    /\ Last(app.past_mountains) = app.h_events[4].data
    /\ Len(app.signals) = 2
    /\ app.signals[1].sig = "update_score"
    /\ app.signals[2].sig = "mountain_detected"

\* the step runs start_detection for a pending one-shot
IsStartShot == Len(app'.start_shots) = Len(app.start_shots) - 1

\* the step runs end_freeze_display for freeze_timer
IsFreezeTimeout == app.freeze_timer /\ ~app'.freeze_timer

\* C39: a timer scheduled before the last start_user_mode never changes
\* the state, and the state leaves "countdown" only by the start_detection
\* one-shot of the countdown started last
C39_RestartCancelsTimers ==
    [][/\ (IsStartShot /\ Head(app.start_shots) < app.h_epoch) =>
             app'.state = app.state
       /\ (IsFreezeTimeout /\ app.h_freeze_epoch < app.h_epoch) =>
             app'.state = app.state
       /\ (app.state = "countdown" /\ app'.state # "countdown") =>
             /\ IsStartShot
             /\ Head(app.start_shots) = app.h_epoch]_vars

\* C40: a user-mode session captures one event: a sample that arrives in
\* state "countdown" changes nothing; mountain_found is set by a sample
\* that takes the state from "detecting" to "frozen" and mountain_data is
\* then the event just completed; and while mountain_found stays set (until
\* the next start_user_mode) no step changes mountain_data, the candidate
\* or the detector, whatever the state
C40_OneEvent ==
    [][/\ (IsDeliver /\ app.current_mode = "user" /\ app.state = "countdown") =>
             app' = [app EXCEPT !.h_fed = Append(@, Head(stream))]
       /\ (~app.mountain_found /\ app'.mountain_found) =>
             /\ IsDeliver
             /\ app.state = "detecting"
             /\ app'.state = "frozen"
             /\ app'.mountain_data = Append(app.current_mountain, Head(stream))
             /\ Len(app'.mountain_data) >= 2
       /\ (app.mountain_found /\ app'.h_epoch = app.h_epoch) =>
             /\ app'.mountain_found
             /\ app'.mountain_data = app.mountain_data
             /\ app'.current_mountain = app.current_mountain
             /\ app'.in_mountain = app.in_mountain
       /\ ~app.mountain_found => app.mountain_data = <<>>]_vars

\* in state "realtime" a second pulse has been processed after the captured
\* one: mountain_data is still the first pulse
C40_Witness ==
    /\ app.state = "realtime"
    /\ app.mountain_found
    /\ Len(app.h_fed) = 4
    /\ app.mountain_data = SubSeq(app.h_fed, 1, 2)
    /\ app.h_fed[3][2] > 0
    /\ app.h_fed[4][2] <= 0
    /\ app.data_buffer = app.h_fed

====
